---- MODULE Spec2Model ----
(***************************************************************************)
(* todo-cli (tools/todo-cli): a command-line client of the go-api-starter  *)
(* API.  One invocation of the program parses its arguments, loads the     *)
(* settings file and the keyring token, builds one ApiClient, runs one     *)
(* command and exits.  The keyring entry and the settings file are the     *)
(* only state that survives an invocation.                                 *)
(***************************************************************************)
EXTENDS Integers, Sequences, FiniteSets, TLC

VARIABLES
    keyring,     \* the keyring entry (todo-cli, api_token): Option<token>
    configFile,  \* the settings file config.toml on disk
    pc,          \* position of the process: idle, parsed, loaded, exited
    cli,         \* the parsed command line (struct Cli)
    config,      \* the in-memory Config after Config::load
    client,      \* the ApiClient built in main
    requests,    \* the HTTP requests this invocation has attempted
    response,    \* the server's answers to those requests
    stdin,       \* what this invocation read from standard input
    stdout,      \* the lines this invocation printed
    err,         \* the anyhow error main returned (context chain), or <<>>
    exit         \* the exit status of the process, -1 while it runs

vars == <<keyring, configFile, pc, cli, config, client, requests, response,
          stdin, stdout, err, exit>>

----------------------------------------------------------------------------
(* Option<T>: None is the empty sequence, Some(x) the one-element one.     *)

None == <<>>

Some(x) == <<x>>

----------------------------------------------------------------------------
(* Bounds of the model.                                                    *)

MaxId == 1

MaxList == 2

----------------------------------------------------------------------------
(* Input domains.                                                          *)

\* A URL is its text without trailing slashes followed by its trailing slashes.
DefaultUrl == <<"http://localhost:8080">>

FlagUrl == <<"http://flag.example", "/">>

EnvUrl == <<"http://env.example">>

SetUrls == { <<"http://saved.example">>, <<"http://saved.example", "/">> }

Formats == {"text", "json"}

Ids == 1..MaxId

Tokens == {"t1", "t2"}

Statuses == {200, 299, 300, 404}

Todo == [id : Ids, user_id : {1}, title : {"a"}, completed : BOOLEAN,
         created_at : {"2024-01-15T10:30:00Z"}, updated_at : {"bad-date"}]

RECURSIVE SeqsUpTo(_, _)
SeqsUpTo(S, n) ==
    IF n = 0 THEN {<<>>}
    ELSE LET shorter == SeqsUpTo(S, n - 1)
         IN  shorter \cup {Append(s, x) : s \in shorter, x \in S}

TodoLists == SeqsUpTo(Todo, MaxList)

----------------------------------------------------------------------------
(* api.rs: wire types.                                                     *)

\* A response body as the JSON decoders see it: which shape it has and the
\* fields of that shape ("garbage" decodes as nothing).
Body(kind, error, token, todos) ==
    [kind |-> kind, error |-> error, token |-> token, todos |-> todos]

Bodies ==
    {Body("garbage", "", "", <<>>), Body("error", "boom", "", <<>>)}
    \cup {Body("auth", "", t, <<>>) : t \in Tokens}
    \cup {Body("todo", "", "", <<t>>) : t \in Todo}
    \cup {Body("list", "", "", l) : l \in TodoLists}

\* What the network gives back to one send(): a transport failure, or a
\* status line with a body.
Responses ==
    {[transport |-> TRUE, status |-> 0, body |-> Body("garbage", "", "", <<>>)]}
    \cup [transport : {FALSE}, status : Statuses, body : Bodies]

Ok(token, todos) == [ok |-> TRUE, token |-> token, todos |-> todos, err |-> <<>>]

Err(chain) == [ok |-> FALSE, token |-> "", todos |-> <<>>, err |-> chain]

\* One HTTP request: the URL is base ++ route ++ id ++ query.
Request(method, base, route, id, query, auth, body) ==
    [method |-> method, base |-> base, route |-> route, id |-> id,
     query |-> query, auth |-> auth, body |-> body]

\* str::trim_end_matches('/')
RECURSIVE trim_end_matches(_)
trim_end_matches(u) ==
    IF Len(u) > 0 /\ u[Len(u)] = "/"
    THEN trim_end_matches(SubSeq(u, 1, Len(u) - 1))
    ELSE u

ApiClient_new(base_url, token) ==
    [base_url |-> trim_end_matches(base_url), token |-> token]

\* auth_header without the scheme: the bare token.
auth_header_bare(c) ==
    IF c.token = None THEN None ELSE Some(<<c.token[1]>>)

auth_header(c) ==
    IF c.token = None THEN None ELSE Some(<<"Bearer ", c.token[1]>>)

is_success(status) == status >= 200 /\ status <= 299

\* response.json::<ApiError>(): needs the field error
json_ApiError(body) == IF body.kind = "error" THEN Some(body.error) ELSE None

\* response.json::<AuthResponse>(): needs the field token
json_AuthResponse(body) == IF body.kind = "auth" THEN Some(body.token) ELSE None

\* response.json::<Todo>()
json_Todo(body) == IF body.kind = "todo" THEN Some(body.todos[1]) ELSE None

\* response.json::<TodoListResponse>()
json_TodoListResponse(body) == IF body.kind = "list" THEN Some(body.todos) ELSE None

unwrap_or(opt, dflt) == IF opt = None THEN dflt ELSE opt[1]

\* failure_of with only 4xx and 5xx taken as failures.
failure_of_below_400(resp, sendContext, prefix) ==
    IF resp.transport THEN Some(<<sendContext, "transport error">>)
    ELSE IF resp.status >= 400
         THEN Some(<<prefix, unwrap_or(json_ApiError(resp.body), "Unknown error")>>)
         ELSE None

\* The part every ApiClient method repeats after send(): a transport failure
\* returns at once with the send context; a non-2xx status bails with the
\* method's prefix and the server's message or "Unknown error".
\* Some(error chain), or None when the status is a success.
failure_of(resp, sendContext, prefix) ==
    IF resp.transport THEN Some(<<sendContext, "transport error">>)
    ELSE IF ~is_success(resp.status)
         THEN Some(<<prefix, unwrap_or(json_ApiError(resp.body), "Unknown error")>>)
         ELSE None

\* UpdateTodoRequest without skip_serializing_if: absent fields go out as
\* defaults.
UpdateTodoRequest_always(title, completed) ==
    [title |-> unwrap_or(title, ""), completed |-> unwrap_or(completed, FALSE)]

\* serde serialisation of UpdateTodoRequest: skip_serializing_if is_none
UpdateTodoRequest(title, completed) ==
    LET req == [title |-> title, completed |-> completed]
    IN  [f \in {k \in {"title", "completed"} : req[k] # None} |-> req[f][1]]

CreateTodoRequest(title) == [title |-> title]

LoginRequest(email, password) == [email |-> email, password |-> password]

RegisterRequest(email, password) == [email |-> email, password |-> password]

\* Each method yields the request it attempts and the Result it returns.
ApiClient_login(c, email, password, resp) ==
    LET f == failure_of(resp, "Failed to send login request", "Login failed: ")
        a == json_AuthResponse(resp.body)
    IN  [req |-> Request("POST", c.base_url, "/api/v1/auth/login", None, None, None,
                         Some(LoginRequest(email, password))),
         res |-> IF f # None THEN Err(f[1])
                 ELSE IF a = None
                      THEN Err(<<"Failed to parse login response", "decode error">>)
                      ELSE Ok(a[1], <<>>)]

ApiClient_register(c, email, password, resp) ==
    LET f == failure_of(resp, "Failed to send register request", "Registration failed: ")
        a == json_AuthResponse(resp.body)
    IN  [req |-> Request("POST", c.base_url, "/api/v1/users", None, None, None,
                         Some(RegisterRequest(email, password))),
         res |-> IF f # None THEN Err(f[1])
                 ELSE IF a = None
                      THEN Err(<<"Failed to parse register response", "decode error">>)
                      ELSE Ok(a[1], <<>>)]

\* list_todos that applies the completion filter to what the server sent.
ApiClient_list_todos_filtering(c, completed, resp) ==
    LET f == failure_of(resp, "Failed to fetch todos", "Failed to list todos: ")
        l == json_TodoListResponse(resp.body)
        Keep(t) == completed = None \/ t.completed = completed[1]
    IN  [req |-> Request("GET", c.base_url, "/api/v1/todos", None, None,
                         auth_header(c), None),
         res |-> IF f # None THEN Err(f[1])
                 ELSE IF l = None
                      THEN Err(<<"Failed to parse todos", "decode error">>)
                      ELSE Ok("", SelectSeq(l[1], Keep))]

ApiClient_list_todos(c, completed, resp) ==
    LET f == failure_of(resp, "Failed to fetch todos", "Failed to list todos: ")
        l == json_TodoListResponse(resp.body)
    IN  [req |-> Request("GET", c.base_url, "/api/v1/todos", None, None,
                         auth_header(c), None),
         res |-> IF f # None THEN Err(f[1])
                 ELSE IF l = None
                      THEN Err(<<"Failed to parse todos", "decode error">>)
                      ELSE Ok("", l[1])]

ApiClient_get_todo(c, id, resp) ==
    LET f == failure_of(resp, "Failed to fetch todo", "Failed to get todo: ")
        t == json_Todo(resp.body)
    IN  [req |-> Request("GET", c.base_url, "/api/v1/todos/", Some(id), None,
                         auth_header(c), None),
         res |-> IF f # None THEN Err(f[1])
                 ELSE IF t = None
                      THEN Err(<<"Failed to parse todo", "decode error">>)
                      ELSE Ok("", t)]

ApiClient_create_todo(c, title, resp) ==
    LET f == failure_of(resp, "Failed to create todo", "Failed to create todo: ")
        t == json_Todo(resp.body)
    IN  [req |-> Request("POST", c.base_url, "/api/v1/todos", None, None,
                         auth_header(c), Some(CreateTodoRequest(title))),
         res |-> IF f # None THEN Err(f[1])
                 ELSE IF t = None
                      THEN Err(<<"Failed to parse created todo", "decode error">>)
                      ELSE Ok("", t)]

ApiClient_update_todo(c, id, title, completed, resp) ==
    LET f == failure_of(resp, "Failed to update todo", "Failed to update todo: ")
        t == json_Todo(resp.body)
    IN  [req |-> Request("PUT", c.base_url, "/api/v1/todos/", Some(id), None,
                         auth_header(c), Some(UpdateTodoRequest(title, completed))),
         res |-> IF f # None THEN Err(f[1])
                 ELSE IF t = None
                      THEN Err(<<"Failed to parse updated todo", "decode error">>)
                      ELSE Ok("", t)]

ApiClient_delete_todo(c, id, resp) ==
    LET f == failure_of(resp, "Failed to delete todo", "Failed to delete todo: ")
    IN  [req |-> Request("DELETE", c.base_url, "/api/v1/todos/", Some(id), None,
                         auth_header(c), None),
         res |-> IF f # None THEN Err(f[1]) ELSE Ok("", <<>>)]

----------------------------------------------------------------------------
(* config.rs: the settings file and the keyring entry.                     *)

\* The settings file on disk: absent, a TOML document with an optional
\* api_url, text that is not valid TOML for Config, bytes that are not
\* UTF-8, or a file the process may not read.
\* A document has the keys of Config that serde writes; token is a key only
\* if the serialiser writes it.
File(kind, api_url) == [kind |-> kind, api_url |-> api_url, token |-> None]

\* toml::to_string_pretty(self): token and config_path are #[serde(skip)]
toml_to_string_pretty(cfg) == File("toml", cfg.api_url)

InitialFiles ==
    {File("absent", None), File("toml", None), File("badToml", None),
     File("nonUtf8", None), File("noPerm", None)}

\* How one access to the keyring can end: it works, Entry::new fails, or the
\* platform store fails the operation (locked, unreachable).
KeyringOutcomes == {"ok", "entryErr", "platformErr"}

\* How one write of the settings file can end.
SaveOutcomes == {"ok", "mkdirErr", "writeErr"}

Config_default == [api_url |-> None, token |-> None, config_path |-> None]

\* fs::read_to_string: fails on an unreadable file and on invalid UTF-8
read_to_string(file) == file.kind \in {"toml", "badToml"}

\* toml::from_str(&content).unwrap_or_default()
toml_from_str_or_default(file) ==
    IF file.kind = "toml"
    THEN [Config_default EXCEPT !.api_url = file.api_url]
    ELSE Config_default

\* Result<String>: Ok only when the entry exists and the store answers
load_token_from_keyring(outcome, kr) ==
    IF outcome = "entryErr" THEN Err(<<"Failed to create keyring entry">>)
    ELSE IF outcome = "platformErr" \/ kr = None
         THEN Err(<<"Failed to get token from keyring">>)
         ELSE Ok(kr[1], <<>>)

\* Config::load -> [ok, config, err]
Config_load(file, dirsOk, outcome, kr) ==
    LET t == load_token_from_keyring(outcome, kr)
        parsed == IF file.kind # "absent"
                  THEN toml_from_str_or_default(file)
                  ELSE Config_default
    IN  IF ~dirsOk
        THEN [ok |-> FALSE, config |-> Config_default,
              err |-> <<"Failed to determine config directory">>]
        ELSE IF file.kind # "absent" /\ ~read_to_string(file)
        THEN [ok |-> FALSE, config |-> Config_default,
              err |-> <<"Failed to read config file", "io error">>]
        ELSE [ok |-> TRUE,
              config |-> [parsed EXCEPT !.config_path = Some("config.toml"),
                                        !.token = IF t.ok THEN Some(t.token) ELSE None],
              err |-> <<>>]

get_token(cfg) == cfg.token

has_token(cfg) == cfg.token # None

\* Config::set_token -> the Result and the keyring entry afterwards
Config_set_token(outcome, token, kr) ==
    IF outcome = "entryErr"
    THEN [res |-> Err(<<"Failed to create keyring entry">>), keyring |-> kr]
    ELSE IF outcome = "platformErr"
    THEN [res |-> Err(<<"Failed to save token to keyring">>), keyring |-> kr]
    ELSE [res |-> Ok("", <<>>), keyring |-> Some(token)]

\* Config::clear_token: the result of delete_credential is dropped
Config_clear_token(outcome, kr) ==
    IF outcome = "entryErr"
    THEN [res |-> Err(<<"Failed to create keyring entry">>), keyring |-> kr]
    ELSE IF outcome = "platformErr"
    THEN [res |-> Ok("", <<>>), keyring |-> kr]
    ELSE [res |-> Ok("", <<>>), keyring |-> None]

\* Config::save: token and config_path are #[serde(skip)]
Config_save(cfg, outcome, file) ==
    IF cfg.config_path = None THEN [res |-> Ok("", <<>>), file |-> file]
    ELSE IF outcome = "mkdirErr"
    THEN [res |-> Err(<<"Failed to create config directory">>), file |-> file]
    ELSE IF outcome = "writeErr"
    THEN [res |-> Err(<<"Failed to write config file">>), file |-> file]
    ELSE [res |-> Ok("", <<>>), file |-> toml_to_string_pretty(cfg)]

Config_set_url(cfg, url, outcome, file) ==
    Config_save([cfg EXCEPT !.api_url = Some(url)], outcome, file)

----------------------------------------------------------------------------
(* Standard input and output.                                              *)

\* A line read by read_line, character by character (the terminator stays).
Lines ==
    { <<"y", "\n">>, <<"Y", "\n">>, <<" ", "y", " ", "\n">>, <<"n", "\n">>,
      <<"y", "e", "s", "\n">>, <<"\n">>, <<>> }

\* read_line: Ok with the line, or an io error (stdin closed badly, not UTF-8)
StdinReads ==
    {[ok |-> TRUE, line |-> l] : l \in Lines} \cup {[ok |-> FALSE, line |-> <<>>]}

Whitespace == {" ", "\n", "\t", "\r"}

\* str::trim
RECURSIVE trim(_)
trim(s) ==
    IF Len(s) > 0 /\ s[1] \in Whitespace THEN trim(SubSeq(s, 2, Len(s)))
    ELSE IF Len(s) > 0 /\ s[Len(s)] \in Whitespace
         THEN trim(SubSeq(s, 1, Len(s) - 1))
         ELSE s

to_ascii_lowercase(ch) ==
    CASE ch = "Y" -> "y"
      [] ch = "N" -> "n"
      [] ch = "E" -> "e"
      [] ch = "S" -> "s"
      [] OTHER -> ch

eq_ignore_ascii_case(s, t) ==
    /\ Len(s) = Len(t)
    /\ \A i \in 1..Len(s) : to_ascii_lowercase(s[i]) = to_ascii_lowercase(t[i])

\* confirmed with yes as the default answer: the empty line proceeds too.
confirmed_default_yes(input) ==
    trim(input) = <<>> \/ eq_ignore_ascii_case(trim(input), <<"y">>)

\* main.rs: the confirmation test of delete
confirmed(input) == eq_ignore_ascii_case(trim(input), <<"y">>)

\* One printed line: what it is and the values rendered into it.
Line(kind) ==
    [kind |-> kind, n |-> 0, glyph |-> "", id |-> 0, title |-> "",
     struck |-> FALSE, text |-> "", url |-> None, json |-> <<>>]

----------------------------------------------------------------------------
(* output.rs: the Presenter.                                               *)

\* chrono parse_from_rfc3339 then %Y-%m-%d %H:%M, else the text unchanged
format_datetime(dt) ==
    IF dt = "2024-01-15T10:30:00Z" THEN "2024-01-15 10:30" ELSE dt

print_todo_line(todo) ==
    [Line("todo_line") EXCEPT
        !.glyph = IF todo.completed THEN "check" ELSE "circle",
        !.id = todo.id,
        !.title = todo.title,
        !.struck = todo.completed]

print_todo_detail(todo) ==
    << Line("rule"),
       [Line("detail_id") EXCEPT !.id = todo.id],
       [Line("detail_title") EXCEPT !.title = todo.title],
       [Line("detail_status") EXCEPT
           !.text = IF todo.completed THEN "Completed" ELSE "Pending"],
       [Line("detail_created") EXCEPT !.text = format_datetime(todo.created_at)],
       [Line("detail_updated") EXCEPT !.text = format_datetime(todo.updated_at)],
       Line("rule") >>

print_todos(todos, format) ==
    IF format = "json"
    THEN << [Line("json_array") EXCEPT !.json = todos] >>
    ELSE IF todos = <<>>
         THEN << Line("no_todos_found") >>
         ELSE << [Line("count_header") EXCEPT !.n = Len(todos)], Line("blank") >>
              \o [i \in 1..Len(todos) |-> print_todo_line(todos[i])]

print_todo(todo, format) ==
    IF format = "json"
    THEN << [Line("json_object") EXCEPT !.json = <<todo>>] >>
    ELSE print_todo_detail(todo)

\* The kinds of line only the Presenter prints.
PresenterKinds ==
    {"json_array", "json_object", "no_todos_found", "count_header", "blank",
     "todo_line", "rule", "detail_id", "detail_title", "detail_status",
     "detail_created", "detail_updated"}

----------------------------------------------------------------------------
(* auth.rs                                                                 *)

\* auth_login that stores the token field of whatever body came back, before
\* looking at the Result of the call.
auth_login_stores_first(c, email, password, resp, outcome, kr) ==
    LET a == ApiClient_login(c, email, password, resp)
        s == Config_set_token(outcome, resp.body.token, kr)
    IN  IF ~a.res.ok
        THEN [req |-> a.req, out |-> <<Line("logging_in")>>, res |-> a.res,
              keyring |-> IF resp.transport THEN kr ELSE s.keyring]
        ELSE [req |-> a.req,
              out |-> <<Line("logging_in")>> \o
                      (IF s.res.ok THEN <<Line("login_successful"), Line("token_stored")>>
                       ELSE <<>>),
              res |-> s.res, keyring |-> s.keyring]

\* Each yields the request attempted, the lines printed, the Result and the
\* keyring entry afterwards.
auth_login(c, email, password, resp, outcome, kr) ==
    LET a == ApiClient_login(c, email, password, resp)
        s == Config_set_token(outcome, a.res.token, kr)
    IN  IF ~a.res.ok
        THEN [req |-> a.req, out |-> <<Line("logging_in")>>, res |-> a.res,
              keyring |-> kr]
        ELSE [req |-> a.req,
              out |-> <<Line("logging_in")>> \o
                      (IF s.res.ok THEN <<Line("login_successful"), Line("token_stored")>>
                       ELSE <<>>),
              res |-> s.res, keyring |-> s.keyring]

auth_register(c, email, password, resp, outcome, kr) ==
    LET a == ApiClient_register(c, email, password, resp)
        s == Config_set_token(outcome, a.res.token, kr)
    IN  IF ~a.res.ok
        THEN [req |-> a.req, out |-> <<Line("registering")>>, res |-> a.res,
              keyring |-> kr]
        ELSE [req |-> a.req,
              out |-> <<Line("registering")>> \o
                      (IF s.res.ok THEN <<Line("registration_successful"), Line("now_logged_in")>>
                       ELSE <<>>),
              res |-> s.res, keyring |-> s.keyring]

auth_logout(outcome, kr) ==
    LET c == Config_clear_token(outcome, kr)
    IN  [out |-> IF c.res.ok THEN <<Line("logged_out")>> ELSE <<>>,
         res |-> c.res, keyring |-> c.keyring]

auth_status(cfg) ==
    IF has_token(cfg)
    THEN <<Line("authenticated"), Line("you_are_logged_in")>>
    ELSE <<Line("not_authenticated"), Line("run_auth_login")>>

\* Config::print
Config_print(cfg) ==
    << Line("configuration"),
       [Line("config_file") EXCEPT !.text = "config.toml"],
       [Line("api_url") EXCEPT !.url = cfg.api_url],
       [Line("token") EXCEPT !.text = IF cfg.token # None THEN "stored" ELSE "not set"] >>

----------------------------------------------------------------------------
(* main.rs: the command line.                                              *)

\* clap: the --url flag, else the TODO_API_URL environment value, else the
\* default_value
Cli_url(flag, env) ==
    IF flag # None THEN flag[1] ELSE IF env # None THEN env[1] ELSE DefaultUrl

Cli(command) ==
    [command |-> command, url_flag |-> None, url_env |-> None,
     url |-> DefaultUrl, format |-> "text", email |-> "", password |-> None,
     completed |-> None, id |-> 0, title |-> None, force |-> FALSE,
     new_url |-> None]

OptBool == {None, Some(TRUE), Some(FALSE)}

OptTitle == {None, Some("a")}

OptPassword == {None, Some(<<"p", "w">>)}

\* The subcommands with their arguments.
Commands ==
    {[Cli(c) EXCEPT !.email = "u@x", !.password = p] :
        c \in {"login", "register"}, p \in OptPassword}
    \cup {Cli("logout"), Cli("status"), Cli("config"), Cli("config_show")}
    \cup {[Cli("list") EXCEPT !.completed = b] : b \in OptBool}
    \cup {[Cli(c) EXCEPT !.id = i] : c \in {"get", "done", "undone"}, i \in Ids}
    \cup {[Cli("create") EXCEPT !.title = Some("a")]}
    \cup {[Cli("update") EXCEPT !.id = i, !.title = t, !.completed = b] :
            i \in Ids, t \in OptTitle, b \in OptBool}
    \cup {[Cli("delete") EXCEPT !.id = i, !.force = f] : i \in Ids, f \in BOOLEAN}
    \cup {[Cli("set_url") EXCEPT !.new_url = Some(u)] : u \in SetUrls}

ApiCommands ==
    {"login", "register", "list", "get", "create", "update", "delete",
     "done", "undone"}

LocalCommands == {"logout", "status", "config", "config_show", "set_url"}

----------------------------------------------------------------------------
(* The process.                                                            *)

NoClient == [base_url |-> <<>>, token |-> None]

Init ==
    /\ keyring = None
    /\ configFile \in InitialFiles
    /\ pc = "idle"
    /\ cli = Cli("")
    /\ config = Config_default
    /\ client = NoClient
    /\ requests = <<>>
    /\ response = <<>>
    /\ stdin = <<>>
    /\ stdout = <<>>
    /\ err = <<>>
    /\ exit = -1

\* Cli::parse()
Parse ==
    /\ pc = "idle"
    /\ \E c \in Commands, flag \in {None, Some(FlagUrl)},
          env \in {None, Some(EnvUrl)}, format \in Formats :
          cli' = [c EXCEPT !.url_flag = flag, !.url_env = env,
                           !.url = Cli_url(flag, env), !.format = format]
    /\ pc' = "parsed"
    /\ UNCHANGED <<keyring, configFile, config, client, requests, response,
                   stdin, stdout, err, exit>>

\* main returns: Ok(()) is status 0, Err is printed and is status 1
Return(out, res) ==
    /\ stdout' = out
    /\ err' = res.err
    /\ exit' = IF res.ok THEN 0 ELSE 1
    /\ pc' = "exited"

\* unwrap() on an Err: the process panics, status 101
Panic(out) ==
    /\ stdout' = out
    /\ err' = <<"panic">>
    /\ exit' = 101
    /\ pc' = "exited"

\* let config = Config::load()?; let client = ApiClient::new(&cli.url, config.get_token());
Load ==
    /\ pc = "parsed"
    /\ \E dirsOk \in BOOLEAN, outcome \in KeyringOutcomes :
          LET r == Config_load(configFile, dirsOk, outcome, keyring)
          IN  IF r.ok
              THEN /\ config' = r.config
                   /\ client' = ApiClient_new(cli.url, get_token(r.config))
                   /\ pc' = "loaded"
                   /\ UNCHANGED <<stdout, err, exit>>
              ELSE /\ Return(<<>>, Err(r.err))
                   /\ UNCHANGED <<config, client>>
    /\ UNCHANGED <<keyring, configFile, cli, requests, response, stdin>>

\* rpassword_prompt: the line read, trimmed (the read itself is unwrap()ed)
rpassword_prompt(rd) == trim(rd.line)

\* Called with a retry: a failed send is attempted once more.
Called_retry(req, resp) ==
    /\ requests' = requests \o (IF resp.transport THEN <<req, req>> ELSE <<req>>)
    /\ response' = Append(response, resp)

\* One request went out and resp came back; the command ends with res.
Called(req, resp) ==
    /\ requests' = Append(requests, req)
    /\ response' = Append(response, resp)

\* Commands::Auth / AuthCommands::Login
Login ==
    /\ pc = "loaded" /\ cli.command = "login"
    /\ \E rd \in StdinReads, resp \in Responses, outcome \in KeyringOutcomes :
          LET prompted == cli.password = None
              password == IF prompted THEN rpassword_prompt(rd) ELSE cli.password[1]
              prompt == IF prompted THEN <<Line("password_prompt")>> ELSE <<>>
              a == auth_login(client, cli.email, password, resp, outcome, keyring)
          IN  /\ stdin' = IF prompted THEN <<rd>> ELSE <<>>
              /\ IF prompted /\ ~rd.ok
                 THEN /\ Panic(prompt)
                      /\ UNCHANGED <<requests, response, keyring>>
                 ELSE /\ Called(a.req, resp)
                      /\ keyring' = a.keyring
                      /\ Return(prompt \o a.out, a.res)
    /\ UNCHANGED <<configFile, cli, config, client>>

\* Commands::Auth / AuthCommands::Register
Register ==
    /\ pc = "loaded" /\ cli.command = "register"
    /\ \E rd \in StdinReads, resp \in Responses, outcome \in KeyringOutcomes :
          LET prompted == cli.password = None
              password == IF prompted THEN rpassword_prompt(rd) ELSE cli.password[1]
              prompt == IF prompted THEN <<Line("password_prompt")>> ELSE <<>>
              a == auth_register(client, cli.email, password, resp, outcome, keyring)
          IN  /\ stdin' = IF prompted THEN <<rd>> ELSE <<>>
              /\ IF prompted /\ ~rd.ok
                 THEN /\ Panic(prompt)
                      /\ UNCHANGED <<requests, response, keyring>>
                 ELSE /\ Called(a.req, resp)
                      /\ keyring' = a.keyring
                      /\ Return(prompt \o a.out, a.res)
    /\ UNCHANGED <<configFile, cli, config, client>>

\* Commands::Auth / AuthCommands::Logout
Logout ==
    /\ pc = "loaded" /\ cli.command = "logout"
    /\ \E outcome \in KeyringOutcomes :
          LET a == auth_logout(outcome, keyring)
          IN  /\ keyring' = a.keyring
              /\ Return(a.out, a.res)
    /\ UNCHANGED <<configFile, cli, config, client, requests, response, stdin>>

\* Commands::Auth / AuthCommands::Status
Status ==
    /\ pc = "loaded" /\ cli.command = "status"
    /\ Return(auth_status(config), Ok("", <<>>))
    /\ UNCHANGED <<keyring, configFile, cli, config, client, requests,
                   response, stdin>>

\* Commands::List
List ==
    /\ pc = "loaded" /\ cli.command = "list"
    /\ \E resp \in Responses :
          LET a == ApiClient_list_todos(client, cli.completed, resp)
          IN  /\ Called(a.req, resp)
              /\ Return(IF a.res.ok THEN print_todos(a.res.todos, cli.format)
                        ELSE <<>>, a.res)
    /\ UNCHANGED <<keyring, configFile, cli, config, client, stdin>>

\* Commands::Get
Get ==
    /\ pc = "loaded" /\ cli.command = "get"
    /\ \E resp \in Responses :
          LET a == ApiClient_get_todo(client, cli.id, resp)
          IN  /\ Called(a.req, resp)
              /\ Return(IF a.res.ok THEN print_todo(a.res.todos[1], cli.format)
                        ELSE <<>>, a.res)
    /\ UNCHANGED <<keyring, configFile, cli, config, client, stdin>>

\* Commands::Create
Create ==
    /\ pc = "loaded" /\ cli.command = "create"
    /\ \E resp \in Responses :
          LET a == ApiClient_create_todo(client, cli.title[1], resp)
          IN  /\ Called(a.req, resp)
              /\ Return(IF a.res.ok
                        THEN print_todo(a.res.todos[1], cli.format)
                             \o <<Line("todo_created")>>
                        ELSE <<>>, a.res)
    /\ UNCHANGED <<keyring, configFile, cli, config, client, stdin>>

\* Commands::Update
Update ==
    /\ pc = "loaded" /\ cli.command = "update"
    /\ \E resp \in Responses :
          LET a == ApiClient_update_todo(client, cli.id, cli.title, cli.completed, resp)
          IN  /\ Called(a.req, resp)
              /\ Return(IF a.res.ok
                        THEN print_todo(a.res.todos[1], cli.format)
                             \o <<Line("todo_updated")>>
                        ELSE <<>>, a.res)
    /\ UNCHANGED <<keyring, configFile, cli, config, client, stdin>>

\* Commands::Delete
Delete ==
    /\ pc = "loaded" /\ cli.command = "delete"
    /\ \E rd \in StdinReads, resp \in Responses :
          LET asked == ~cli.force
              prompt == IF asked
                        THEN <<[Line("are_you_sure") EXCEPT !.id = cli.id]>>
                        ELSE <<>>
              a == ApiClient_delete_todo(client, cli.id, resp)
          IN  /\ stdin' = IF asked THEN <<rd>> ELSE <<>>
              /\ IF asked /\ ~rd.ok
                 THEN /\ Return(prompt, Err(<<"io error">>))
                      /\ UNCHANGED <<requests, response>>
                 ELSE IF asked /\ ~confirmed(rd.line)
                 THEN /\ Return(prompt \o <<Line("cancelled")>>, Ok("", <<>>))
                      /\ UNCHANGED <<requests, response>>
                 ELSE /\ Called(a.req, resp)
                      /\ Return(IF a.res.ok
                                THEN prompt \o <<[Line("todo_deleted") EXCEPT !.id = cli.id]>>
                                ELSE prompt, a.res)
    /\ UNCHANGED <<keyring, configFile, cli, config, client>>

\* Commands::Done
Done ==
    /\ pc = "loaded" /\ cli.command = "done"
    /\ \E resp \in Responses :
          LET a == ApiClient_update_todo(client, cli.id, None, Some(TRUE), resp)
          IN  /\ Called(a.req, resp)
              /\ Return(IF a.res.ok
                        THEN print_todo(a.res.todos[1], cli.format)
                             \o <<Line("marked_completed")>>
                        ELSE <<>>, a.res)
    /\ UNCHANGED <<keyring, configFile, cli, config, client, stdin>>

\* Commands::Undone
Undone ==
    /\ pc = "loaded" /\ cli.command = "undone"
    /\ \E resp \in Responses :
          LET a == ApiClient_update_todo(client, cli.id, None, Some(FALSE), resp)
          IN  /\ Called(a.req, resp)
              /\ Return(IF a.res.ok
                        THEN print_todo(a.res.todos[1], cli.format)
                             \o <<Line("marked_incomplete")>>
                        ELSE <<>>, a.res)
    /\ UNCHANGED <<keyring, configFile, cli, config, client, stdin>>

\* Commands::Config with Some(ConfigCommands::Show) | None
ConfigShow ==
    /\ pc = "loaded" /\ cli.command \in {"config", "config_show"}
    /\ Return(Config_print(config), Ok("", <<>>))
    /\ UNCHANGED <<keyring, configFile, cli, config, client, requests,
                   response, stdin>>

\* Commands::Config with Some(ConfigCommands::SetUrl)
ConfigSetUrl ==
    /\ pc = "loaded" /\ cli.command = "set_url"
    /\ \E outcome \in SaveOutcomes :
          LET a == Config_set_url(config, cli.new_url[1], outcome, configFile)
          IN  /\ configFile' = a.file
              /\ Return(IF a.res.ok
                        THEN <<[Line("api_url_set") EXCEPT !.url = cli.new_url]>>
                        ELSE <<>>, a.res)
    /\ UNCHANGED <<keyring, cli, config, client, requests, response, stdin>>

\* The process is gone; only the keyring and the settings file remain.
ProcessExit ==
    /\ pc = "exited"
    /\ pc' = "idle"
    /\ cli' = Cli("")
    /\ config' = Config_default
    /\ client' = NoClient
    /\ requests' = <<>>
    /\ response' = <<>>
    /\ stdin' = <<>>
    /\ stdout' = <<>>
    /\ err' = <<>>
    /\ exit' = -1
    /\ UNCHANGED <<keyring, configFile>>

Next ==
    \/ Parse
    \/ Load
    \/ Login
    \/ Register
    \/ Logout
    \/ Status
    \/ List
    \/ Get
    \/ Create
    \/ Update
    \/ Delete
    \/ Done
    \/ Undone
    \/ ConfigShow
    \/ ConfigSetUrl
    \/ ProcessExit

Spec == Init /\ [][Next]_vars

----------------------------------------------------------------------------
(* Properties.                                                             *)

\* Config::load returned Ok in this invocation.
SettingsLoaded == config.config_path # None

\* The invocation got as far as the API call of its command.
ReachedCall ==
    /\ cli.command \in ApiCommands
    /\ SettingsLoaded
    /\ stdin # <<>> => stdin[1].ok
    /\ (cli.command = "delete" /\ ~cli.force) => confirmed(stdin[1].line)

C2_Original ==
    (pc = "exited" /\ cli.command = "delete" /\ SettingsLoaded) =>
        IF cli.force
        THEN stdin = <<>> /\ Len(requests) = 1
        ELSE stdin[1].ok =>
               LET line == stdin[1].line
                   text == IF Len(line) > 0 /\ line[Len(line)] = "\n"
                           THEN SubSeq(line, 1, Len(line) - 1) ELSE line
                   exact == text \in {<<"y">>, <<"Y">>}
               IN  /\ Len(requests) = 1 => exact
                   /\ ~exact => /\ Len(requests) = 0
                                /\ stdout[Len(stdout)].kind = "cancelled"
                                /\ exit = 0

\* C2 amended: delete without --force sends the request exactly when the line
\* read, with leading and trailing whitespace removed, is y or Y; any other
\* line that was read sends nothing, prints the cancellation message and
\* exits 0; a failed read sends nothing and exits non-zero; with --force the
\* request is sent and standard input is not read.
C2_Confirmation ==
    (pc = "exited" /\ cli.command = "delete" /\ SettingsLoaded) =>
        IF cli.force
        THEN stdin = <<>> /\ Len(requests) = 1
        ELSE /\ Len(stdin) = 1
             /\ ~stdin[1].ok => Len(requests) = 0 /\ exit # 0
             /\ stdin[1].ok =>
                  LET yes == trim(stdin[1].line) \in {<<"y">>, <<"Y">>}
                  IN  /\ yes => /\ Len(requests) = 1
                                /\ requests[1].method = "DELETE"
                      /\ ~yes => /\ Len(requests) = 0
                                 /\ stdout[Len(stdout)].kind = "cancelled"
                                 /\ exit = 0

\* A delete answered with " y " and a line end: the request went out.
C2_Witness ==
    /\ pc = "exited" /\ cli.command = "delete" /\ ~cli.force
    /\ stdin = <<[ok |-> TRUE, line |-> <<" ", "y", " ", "\n">>]>>
    /\ Len(requests) = 1

\* Start-up never fails because no credential is stored, and then the client
\* holds none.
AbsentCredentialIsNoError ==
    /\ (pc = "loaded" /\ keyring = None) => client.token = None
    /\ (pc = "exited" /\ ~SettingsLoaded) =>
          err[1] \in {"Failed to determine config directory",
                      "Failed to read config file"}

\* C3 as claimed: every request of every ApiClient call, login and register
\* included, carries Authorization: Bearer <token> when the client holds a
\* credential and no such header when it holds none; no stored credential at
\* start-up is not an error and gives a client without one.
C3_Original ==
    /\ \A i \in 1..Len(requests) :
          requests[i].auth = IF client.token = None THEN None
                             ELSE Some(<<"Bearer ", client.token[1]>>)
    /\ AbsentCredentialIsNoError

\* C3 amended: the requests of list, get, create, update (done, undone) and
\* delete carry Authorization: Bearer <token> when the client holds a
\* credential and no such header when it holds none; the requests of login
\* and register never carry the header; no stored credential at start-up is
\* not an error and gives a client without one.
C3_BearerOnTodoCalls ==
    /\ \A i \in 1..Len(requests) :
          requests[i].auth =
             IF cli.command \in {"login", "register"} \/ client.token = None
             THEN None
             ELSE Some(<<"Bearer ", client.token[1]>>)
    /\ AbsentCredentialIsNoError

\* A list sent by a client that holds t1.
C3_Witness ==
    /\ pc = "exited" /\ cli.command = "list"
    /\ client.token = Some("t1")
    /\ Len(requests) = 1 /\ requests[1].auth = Some(<<"Bearer ", "t1">>)

\* C4 as claimed: the keyring holds the token of the most recent login or
\* registration that succeeded and was not followed by a logout, and nothing
\* otherwise; stated step by step: a login or register that exits 0 leaves
\* the token the server returned, a logout that exits 0 leaves nothing, every
\* other step leaves the entry as it was; the next invocation reads that value
\* at start-up, and auth status prints Authenticated exactly when a token is
\* stored.
C4_Original ==
    [][ /\ keyring' =
             IF pc = "loaded" /\ cli.command \in {"login", "register"} /\ exit' = 0
             THEN Some(response'[1].body.token)
             ELSE IF pc = "loaded" /\ cli.command = "logout" /\ exit' = 0
                  THEN None
                  ELSE keyring
        /\ (pc = "loaded" /\ cli.command = "status") =>
              (stdout'[1].kind = "authenticated" <=> keyring # None)
      ]_vars

\* C5 as claimed: auth logout always exits 0, whether or not a credential
\* was stored, and after it no credential is stored.
C5_Original ==
    (pc = "exited" /\ cli.command = "logout") => (exit = 0 /\ keyring = None)

\* C6: an update transmits exactly the fields supplied, with their values;
\* done transmits only completed = true, undone only completed = false; no
\* request body has an id or user_id field; the identifier is in the path.
C6_OnlySuppliedFields ==
    \A i \in 1..Len(requests) :
       LET r == requests[i]
           fields == IF r.body = None THEN {} ELSE DOMAIN r.body[1]
           b == r.body[1]
       IN  /\ fields \cap {"id", "user_id"} = {}
           /\ cli.command \in {"get", "update", "delete", "done", "undone"} =>
                 r.id = Some(cli.id) /\ r.route = "/api/v1/todos/"
           /\ cli.command = "update" =>
                 /\ r.body # None
                 /\ "title" \in fields <=> cli.title # None
                 /\ "completed" \in fields <=> cli.completed # None
                 /\ fields \subseteq {"title", "completed"}
                 /\ cli.title # None => b.title = cli.title[1]
                 /\ cli.completed # None => b.completed = cli.completed[1]
           /\ cli.command \in {"done", "undone"} =>
                 /\ r.body # None
                 /\ fields = {"completed"}
                 /\ b.completed = (cli.command = "done")

\* An update with only --title: the body is the title alone.
C6_Witness ==
    /\ pc = "exited" /\ cli.command = "update"
    /\ cli.title = Some("a") /\ cli.completed = None
    /\ Len(requests) = 1 /\ DOMAIN requests[1].body[1] = {"title"}

\* C7: a non-2xx answer ends the command with a failure whose message is the
\* operation's prefix followed by the server's error message when the body
\* has one and by "Unknown error" when it has not; a transport failure ends
\* it with the send failure, whatever status and body; in both cases the
\* exit status is not zero and the Presenter printed nothing.
C7_UniformFailure ==
    (pc = "exited" /\ Len(response) = 1) =>
       LET resp == response[1]
           op == CASE cli.command \in {"update", "done", "undone"} -> "update"
                   [] OTHER -> cli.command
           prefix == CASE op = "login" -> "Login failed: "
                       [] op = "register" -> "Registration failed: "
                       [] op = "list" -> "Failed to list todos: "
                       [] op = "get" -> "Failed to get todo: "
                       [] op = "create" -> "Failed to create todo: "
                       [] op = "update" -> "Failed to update todo: "
                       [] op = "delete" -> "Failed to delete todo: "
           sending == CASE op = "login" -> "Failed to send login request"
                        [] op = "register" -> "Failed to send register request"
                        [] op = "list" -> "Failed to fetch todos"
                        [] op = "get" -> "Failed to fetch todo"
                        [] op = "create" -> "Failed to create todo"
                        [] op = "update" -> "Failed to update todo"
                        [] op = "delete" -> "Failed to delete todo"
           non2xx == ~resp.transport /\ (resp.status < 200 \/ resp.status > 299)
       IN  /\ non2xx =>
                err = <<prefix, IF resp.body.kind = "error" THEN resp.body.error
                                ELSE "Unknown error">>
           /\ resp.transport => err = <<sending, "transport error">>
           /\ (non2xx \/ resp.transport) =>
                /\ exit # 0
                /\ \A j \in 1..Len(stdout) : stdout[j].kind \notin PresenterKinds

\* A get answered 404 with a body that is not an error document.
C7_Witness ==
    /\ pc = "exited" /\ cli.command = "get"
    /\ Len(response) = 1 /\ response[1].status = 404
    /\ response[1].body.kind = "garbage"
    /\ err = <<"Failed to get todo: ", "Unknown error">> /\ exit = 1

\* C8 as claimed: with a settings file that config set-url saved, an
\* invocation without --url and without TODO_API_URL sends its request to the
\* saved base URL.
C8_Original ==
    (/\ pc = "exited" /\ Len(requests) = 1
     /\ cli.url_flag = None /\ cli.url_env = None
     /\ configFile.kind = "toml" /\ configFile.api_url # None) =>
        requests[1].base \in {configFile.api_url[1],
                              trim_end_matches(configFile.api_url[1])}

\* C9 as claimed: no command fails at the settings load because of what the
\* settings file contains; with the file absent or unparseable the load gives
\* the default settings and the command runs.
C9_Original ==
    /\ (pc = "exited" /\ configFile.kind \in {"absent", "toml", "badToml", "nonUtf8"}) =>
          (err = <<>> \/ err[1] # "Failed to read config file")
    /\ (pc = "loaded" /\ configFile.kind \in {"absent", "badToml", "nonUtf8"}) =>
          config.api_url = None

C11_Frame ==
    [][ /\ keyring' # keyring =>
             /\ pc = "loaded"
             /\ \/ /\ cli.command \in {"login", "register"}
                   /\ Len(response') = 1
                   /\ ~response'[1].transport
                   /\ response'[1].status \in 200..299
                   /\ response'[1].body.kind = "auth"
                   /\ keyring' = Some(response'[1].body.token)
                \/ /\ cli.command = "logout"
                   /\ keyring' = None
        /\ configFile' # configFile =>
             /\ pc = "loaded" /\ cli.command = "set_url"
             /\ configFile'.kind = "toml"
             /\ configFile'.api_url = cli.new_url
        /\ configFile'.token = None
      ]_vars

\* A login answered 404 with a body that carries t2, while t1 is stored: t1
\* is still stored.
C11_Witness ==
    /\ pc = "exited" /\ cli.command = "login" /\ exit = 1
    /\ Len(response) = 1 /\ response[1].status = 404
    /\ response[1].body.kind = "auth" /\ response[1].body.token = "t2"
    /\ keyring = Some("t1")

====
